---- MODULE Spec2Model ----
(***************************************************************************)
(* Model of the Linux clock-sync platform adaptor, pa_clkSync_linux.c:     *)
(* pa_clkSync_GetTimeWithTimeProtocol, pa_clkSync_GetTimeWithNetworkTime-  *)
(* Protocol and the engine they share, pa_clkSync_GetTimeFromServer, with  *)
(* the two output parsers TpParseOutput and NtpParseOutput.                *)
(*                                                                         *)
(* A C string is the sequence of its characters before the terminating     *)
(* NUL, each character a one-character string.  A line returned by fgets   *)
(* carries its trailing "\n".                                              *)
(***************************************************************************)
EXTENDS Integers, Sequences, FiniteSets, TLC

-----------------------------------------------------------------------------
(* Program constants *)

MAX_SYSTEM_CMD_LENGTH ==
    512

MAX_SYSTEM_CMD_OUTPUT_LENGTH ==
    1024

LE_OK == "LE_OK"
LE_NOT_FOUND == "LE_NOT_FOUND"
LE_FAULT == "LE_FAULT"
LE_BAD_PARAMETER == "LE_BAD_PARAMETER"
LE_UNAVAILABLE == "LE_UNAVAILABLE"
LE_UNSUPPORTED == "LE_UNSUPPORTED"

-----------------------------------------------------------------------------
(* Character classes and the libc string functions the code calls *)

UpperCase ==
    <<"A","B","C","D","E","F","G","H","I","J","K","L","M","N","O","P","Q","R","S","T","U","V","W","X","Y","Z">>

LowerCase ==
    <<"a","b","c","d","e","f","g","h","i","j","k","l","m","n","o","p","q","r","s","t","u","v","w","x","y","z">>

Digits ==
    <<"0","1","2","3","4","5","6","7","8","9">>

HexLetters ==
    <<"a","b","c","d","e","f","A","B","C","D","E","F">>

Min(S) ==
    CHOOSE x \in S : \A y \in S : x <= y

\* isspace() in the C locale
IsSpace(c) ==
    c \in {" ", "\t", "\n", "\r", "\f"}

IsDigit(c) ==
    \E i \in 1..10 : Digits[i] = c

DigitVal(c) ==
    (CHOOSE i \in 1..10 : Digits[i] = c) - 1

IsXDigit(c) ==
    IsDigit(c) \/ \E i \in 1..12 : HexLetters[i] = c

\* value of a hexadecimal digit: a..f and A..F are 10..15
XDigitVal(c) ==
    IF IsDigit(c) THEN DigitVal(c)
    ELSE 10 + (((CHOOSE i \in 1..12 : HexLetters[i] = c) - 1) % 6)

ToLower(c) ==
    IF \E i \in 1..26 : UpperCase[i] = c
    THEN LowerCase[CHOOSE i \in 1..26 : UpperCase[i] = c]
    ELSE c

\* the characters of p stand in s from position i on
MatchAt(s, p, i) ==
    /\ i + Len(p) - 1 <= Len(s)
    /\ \A k \in 1..Len(p) : s[i + k - 1] = p[k]

\* strstr(s + from - 1, p): the position in s of the first occurrence of p
\* at or after position from, 0 for a null result
StrStr(s, p, from) ==
    LET found == {i \in from..(Len(s) - Len(p) + 1) : MatchAt(s, p, i)}
    IN  IF found = {} THEN 0 ELSE Min(found)

\* the first position at or after i that holds no white space (Len(s)+1: the NUL)
SkipSpace(s, i) ==
    Min({j \in i..(Len(s) + 1) : j = Len(s) + 1 \/ ~IsSpace(s[j])})

RECURSIVE AccDigits(_, _, _)
AccDigits(s, i, acc) ==
    IF i <= Len(s) /\ IsDigit(s[i])
    THEN AccDigits(s, i + 1, acc * 10 + DigitVal(s[i]))
    ELSE acc

\* strtol(s, &end, 10): white space, an optional sign, then decimal digits up to
\* the first character that is none; 0 when there is no digit.  (The lines of
\* this model stay below LONG_MAX on every target, so the saturation of strtol
\* is never reached.)
strtol(s) ==
    LET i == SkipSpace(s, 1)
        neg == i <= Len(s) /\ s[i] = "-"
        j == IF i <= Len(s) /\ s[i] \in {"+", "-"} THEN i + 1 ELSE i
        v == AccDigits(s, j, 0)
    IN  IF neg THEN 0 - v ELSE v

\* the C conversion (int16_t)v: the low 16 bits, two's complement
ToInt16(v) ==
    LET m == v % 65536
    IN  IF m >= 32768 THEN m - 65536 ELSE m

-----------------------------------------------------------------------------
(* Inputs: the servers a caller passes and the lines a process prints *)

SrvV4 ==
    <<"1","0",".","0",".","0",".","1">>

SrvV6 ==
    <<"2","0","0","1",":","d","b","8",":",":","1">>

SrvV6Mapped ==
    <<":",":","f","f","f","f",":","1","0",".","0",".","0",".","1">>

SrvName ==
    <<"p","o","o","l",".","n","t","p",".","o","r","g">>

SrvBadQuad ==
    <<"2","5","6",".","1",".","1",".","1">>

LnBlank ==
    <<"\n">>

LnZero ==
    <<"0","\n">>

LnOne ==
    <<"1","\n">>

LnWrap ==
    <<"6","5","5","3","6","\n">>

LnNeg ==
    <<"-","1","\n">>

LnTpDate ==
    <<"T","u","e"," ","J","a","n"," ","0","2"," ","1","5",":","0","4",":","0","5"," ","2","0",
      "2","4","\n">>

LnTpLater ==
    <<"F","r","i","d","a","y"," ","f","e","b","r","u","a","r","y"," ","3","1"," ","2","3",":",
      "5","9",":","6","0"," ","1","9","9","9","\n">>

LnTpBadHour ==
    <<"W","e","d"," ","F","e","b"," ","2","9"," ","2","4",":","0","0",":","0","0"," ","2","0",
      "2","4","\n">>

LnNtpStep ==
    <<"1"," ","J","a","n"," ","0","7",":","3","3",":","2","0"," ","n","t","p","d","a","t","e",
      "[","2","9","3","2","9","]",":"," ","s","t","e","p"," ","t","i","m","e"," ","s","e","r",
      "v","e","r"," ","5",".","1","9","6",".","1","6","0",".","1","3","9"," ","o","f","f","s",
      "e","t"," ","1","5","5","8","3","7","4","3","3","8",".","2","0","2","4","1","8"," ","s",
      "e","c","\n">>

LnNtpNeg ==
    <<"2"," ","N","o","v"," ","1","0",":","0","0",":","0","0"," ","n","t","p","d","a","t","e",
      "[","7","7","]",":"," ","a","d","j","u","s","t"," ","t","i","m","e"," ","s","e","r","v",
      "e","r"," ","1","0",".","0",".","0",".","1"," ","o","f","f","s","e","t"," ","-","1",".",
      "9","0","0","0","0","0"," ","s","e","c","\n">>

LnNtpFrac ==
    <<"2"," ","N","o","v"," ","1","0",":","0","0",":","0","0"," ","n","t","p","d","a","t","e",
      "[","7","7","]",":"," ","a","d","j","u","s","t"," ","t","i","m","e"," ","s","e","r","v",
      "e","r"," ","1","0",".","0",".","0",".","1"," ","o","f","f","s","e","t"," ","0",".","9",
      "9","9","9","9","9"," ","s","e","c","\n">>

LnNoTool ==
    <<"s","t","e","p"," ","t","i","m","e"," ","s","e","r","v","e","r"," ","1","0",".","0",".",
      "0",".","1"," ","o","f","f","s","e","t"," ","7",".","5","0","0","0","0","0"," ","s","e",
      "c","\n">>

LnNtpNoServer ==
    <<"2"," ","N","o","v"," ","1","0",":","0","0",":","0","0"," ","n","t","p","d","a","t","e",
      "[","7","7","]",":"," ","n","o"," ","s","e","r","v","e","r"," ","s","u","i","t","a","b",
      "l","e"," ","f","o","r"," ","s","y","n","c","h","r","o","n","i","z","a","t","i","o","n",
      " ","f","o","u","n","d","\n">>

LnNtpNoUnit ==
    <<"n","t","p","d","a","t","e",":"," ","o","f","f","s","e","t"," ","5","\n">>

NullText ==
    <<"(","n","u","l","l",")">>

RdateGetFmt ==
    <<"/","u","s","r","/","s","b","i","n","/","r","d","a","t","e"," ","-","p"," ">>

RdateSetFmt ==
    <<"/","u","s","r","/","s","b","i","n","/","r","d","a","t","e"," ">>

NtpdateGetFmt ==
    <<"/","u","s","r","/","s","b","i","n","/","n","t","p","d","a","t","e"," ","-","t"," ","1",
      ".","0"," ","-","p"," ","1"," ","-","q"," ">>

NtpdateSetFmt ==
    <<"/","u","s","r","/","s","b","i","n","/","n","t","p","d","a","t","e"," ","-","t"," ","1",
      ".","0"," ","-","p"," ","1"," ">>

SetTail ==
    <<" ",">","&"," ","/","d","e","v","/","n","u","l","l",";"," ","e","c","h","o"," ","$","?">>

GetTail ==
    <<";"," ","e","c","h","o"," ","$","?">>

NULL ==
    [null |-> TRUE, chars |-> <<>>]

Str(s) ==
    [null |-> FALSE, chars |-> s]

\* the server arguments of the calls
Servers ==
    {NULL, Str(<<>>), Str(SrvV4), Str(SrvV6), Str(SrvV6Mapped), Str(SrvName),
     Str(SrvBadQuad)}

\* the lines a launched process may print
Lines ==
    {LnBlank, LnZero, LnOne, LnWrap, LnNeg, LnTpDate, LnTpLater, LnTpBadHour,
     LnNtpStep, LnNtpNeg, LnNtpFrac, LnNoTool, LnNtpNoServer, LnNtpNoUnit}

-----------------------------------------------------------------------------
(* Address classification and name resolution *)

\* inet_pton(AF_INET, s): four decimal numbers of at most 255, without a
\* leading zero, separated by single dots.  cur is the octet being read,
\* octets the number of octets begun.
RECURSIVE Pton4(_, _, _, _, _)
Pton4(s, i, cur, sawDigit, octets) ==
    IF i > Len(s) THEN octets = 4
    ELSE IF IsDigit(s[i])
         THEN LET new == cur * 10 + DigitVal(s[i])
              IN  IF sawDigit /\ cur = 0 THEN FALSE
                  ELSE IF new > 255 THEN FALSE
                  ELSE IF ~sawDigit /\ octets + 1 > 4 THEN FALSE
                  ELSE Pton4(s, i + 1, new, TRUE,
                             IF sawDigit THEN octets ELSE octets + 1)
    ELSE IF s[i] = "." /\ sawDigit
         THEN IF octets = 4 THEN FALSE ELSE Pton4(s, i + 1, 0, FALSE, octets)
    ELSE FALSE

inet_pton4(s) ==
    Pton4(s, 1, 0, FALSE, 0)

\* inet_pton(AF_INET6, s): tp counts the bytes stored (of 16), colon tells
\* that a "::" was seen, val is the group being read and curtok where it began
RECURSIVE Pton6(_, _, _, _, _, _, _)
Pton6(s, i, tp, colon, sawX, val, curtok) ==
    LET end == IF sawX THEN tp + 2 ELSE tp
    IN  IF i > Len(s)
        THEN /\ ~(sawX /\ tp + 2 > 16)
             /\ IF colon THEN end < 16 ELSE end = 16
        ELSE IF IsXDigit(s[i])
             THEN LET v == val * 16 + XDigitVal(s[i])
                  IN  IF v > 65535 THEN FALSE
                      ELSE Pton6(s, i + 1, tp, colon, TRUE, v, curtok)
        ELSE IF s[i] = ":"
             THEN IF ~sawX
                  THEN IF colon THEN FALSE
                       ELSE Pton6(s, i + 1, tp, TRUE, FALSE, val, i + 1)
                  ELSE IF i = Len(s) THEN FALSE
                  ELSE IF tp + 2 > 16 THEN FALSE
                  ELSE Pton6(s, i + 1, tp + 2, colon, FALSE, 0, i + 1)
        ELSE IF s[i] = "." /\ tp + 4 <= 16
                /\ inet_pton4(SubSeq(s, curtok, Len(s)))
             THEN IF colon THEN tp + 4 < 16 ELSE tp + 4 = 16
        ELSE FALSE

inet_pton6(s) ==
    IF Len(s) >= 1 /\ s[1] = ":"
    THEN IF Len(s) >= 2 /\ s[2] = ":"
         THEN Pton6(s, 2, 0, FALSE, FALSE, 0, 2)
         ELSE FALSE
    ELSE Pton6(s, 1, 0, FALSE, FALSE, 0, 1)

IsIpAddress(addStr) ==
    inet_pton4(addStr) \/ inet_pton6(addStr)

\* a variant that does not test the return code of getaddrinfo
ResolveIpAddress_IgnoresFailure(ai) ==
    LE_OK

\* ai is the outcome of getaddrinfo: its return code and the list it filled
ResolveIpAddress(ai) ==
    IF ai.rc # 0 THEN LE_FAULT
    ELSE IF Len(ai.list) > 0 THEN LE_OK
    ELSE LE_FAULT

-----------------------------------------------------------------------------
(* struct tm, the fields the code reads or the parsers write *)

ZeroTm ==
    [tm_sec |-> 0, tm_min |-> 0, tm_hour |-> 0, tm_mday |-> 0,
     tm_mon |-> 0, tm_year |-> 0, tm_wday |-> 0]

weekday_name ==
    << <<"S","u","n","d","a","y">>,
       <<"M","o","n","d","a","y">>,
       <<"T","u","e","s","d","a","y">>,
       <<"W","e","d","n","e","s","d","a","y">>,
       <<"T","h","u","r","s","d","a","y">>,
       <<"F","r","i","d","a","y">>,
       <<"S","a","t","u","r","d","a","y">> >>

month_name ==
    << <<"J","a","n","u","a","r","y">>,
       <<"F","e","b","r","u","a","r","y">>,
       <<"M","a","r","c","h">>,
       <<"A","p","r","i","l">>,
       <<"M","a","y">>,
       <<"J","u","n","e">>,
       <<"J","u","l","y">>,
       <<"A","u","g","u","s","t">>,
       <<"S","e","p","t","e","m","b","e","r">>,
       <<"O","c","t","o","b","e","r">>,
       <<"N","o","v","e","m","b","e","r">>,
       <<"D","e","c","e","m","b","e","r">> >>

NoMatch ==
    [ok |-> FALSE, val |-> 0, pos |-> 0]

\* strptime's match of a day or month name at position i: for each name in
\* turn, the full name and then its three-letter abbreviation, letter case
\* ignored; val is the index (from 0) of the first name that matches
NameMatchesAt(name, s, i) ==
    /\ i + Len(name) - 1 <= Len(s)
    /\ \A k \in 1..Len(name) : ToLower(s[i + k - 1]) = ToLower(name[k])

MatchName(names, s, i) ==
    LET hits == {c \in 1..Len(names) :
                    \/ NameMatchesAt(names[c], s, i)
                    \/ NameMatchesAt(SubSeq(names[c], 1, 3), s, i)}
        c == Min(hits)
    IN  IF hits = {} THEN NoMatch
        ELSE [ok |-> TRUE, val |-> c - 1,
              pos |-> IF NameMatchesAt(names[c], s, i)
                      THEN i + Len(names[c]) ELSE i + 3]

\* strptime's get_number(from, to, n) at position i: white space is skipped,
\* then up to n digits are read while ten times the value stays within to
RECURSIVE GetDigits(_, _, _, _, _)
GetDigits(s, i, val, n, to) ==
    LET v == val * 10 + DigitVal(s[i])
    IN  IF n - 1 > 0 /\ v * 10 <= to /\ i + 1 <= Len(s) /\ IsDigit(s[i + 1])
        THEN GetDigits(s, i + 1, v, n - 1, to)
        ELSE [val |-> v, pos |-> i + 1]

get_number(s, i, from, to, n) ==
    LET j == SkipSpace(s, i)
        r == GetDigits(s, j, 0, n, to)
    IN  IF j > Len(s) \/ ~IsDigit(s[j]) THEN NoMatch
        ELSE IF r.val < from \/ r.val > to THEN NoMatch
        ELSE [ok |-> TRUE, val |-> r.val, pos |-> r.pos]

\* a literal character of the format
match_char(s, i, c) ==
    IF i <= Len(s) /\ s[i] = c
    THEN [ok |-> TRUE, val |-> 0, pos |-> i + 1]
    ELSE NoMatch

\* The conversions of strptime(s, "%a %b %d %H:%M:%S %Y", tm) on the text s,
\* last first; i is the position reached and w the fields stored so far.  The
\* result tells whether the whole format matched (ok: a non-null result;
\* characters after the match are ignored) and holds the fields written.
\* Every conversion stores its field as soon as it matches, so a failed call
\* has written the fields of the conversions before the failure.
ScanFail(w) ==
    [ok |-> FALSE, stores |-> w]

ConvYear(s, i, w) ==
    LET y == get_number(s, SkipSpace(s, i), 0, 9999, 4)
    IN  IF ~y.ok THEN ScanFail(w)
        ELSE [ok |-> TRUE, stores |-> w @@ [tm_year |-> y.val - 1900]]

ConvSec(s, i, w) ==
    LET c  == match_char(s, i, ":")
        sc == get_number(s, c.pos, 0, 61, 2)
    IN  IF ~c.ok \/ ~sc.ok THEN ScanFail(w)
        ELSE ConvYear(s, sc.pos, w @@ [tm_sec |-> sc.val])

ConvMin(s, i, w) ==
    LET c == match_char(s, i, ":")
        m == get_number(s, c.pos, 0, 59, 2)
    IN  IF ~c.ok \/ ~m.ok THEN ScanFail(w)
        ELSE ConvSec(s, m.pos, w @@ [tm_min |-> m.val])

ConvHour(s, i, w) ==
    LET h == get_number(s, SkipSpace(s, i), 0, 23, 2)
    IN  IF ~h.ok THEN ScanFail(w)
        ELSE ConvMin(s, h.pos, w @@ [tm_hour |-> h.val])

ConvMday(s, i, w) ==
    LET d == get_number(s, SkipSpace(s, i), 1, 31, 2)
    IN  IF ~d.ok THEN ScanFail(w)
        ELSE ConvHour(s, d.pos, w @@ [tm_mday |-> d.val])

ConvMon(s, i, w) ==
    LET b == MatchName(month_name, s, SkipSpace(s, i))
    IN  IF ~b.ok THEN ScanFail(w)
        ELSE ConvMday(s, b.pos, w @@ [tm_mon |-> b.val])

StrptimeScan(s) ==
    LET a == MatchName(weekday_name, s, 1)
    IN  IF ~a.ok THEN ScanFail(<<>>)
        ELSE ConvMon(s, a.pos, [tm_wday |-> a.val])

\* StrptimeScan on the lines of the model, computed once
StrptimeOfLine ==
    [l \in Lines |-> StrptimeScan(l)]

strptime(s, tm) ==
    LET scan == IF s \in Lines THEN StrptimeOfLine[s] ELSE StrptimeScan(s)
    IN  [ok |-> scan.ok,
         tm |-> [f \in DOMAIN tm |->
                    IF f \in DOMAIN scan.stores THEN scan.stores[f] ELSE tm[f]]]

\* the civil date of a day number counted from 1970-01-01
CivilFromDays(n) ==
    LET z   == n + 719468
        era == z \div 146097
        doe == z - era * 146097
        yoe == (doe - doe \div 1460 + doe \div 36524 - doe \div 146096) \div 365
        doy == doe - (365 * yoe + yoe \div 4 - yoe \div 100)
        mp  == (5 * doy + 2) \div 153
        d   == doy - (153 * mp + 2) \div 5 + 1
        m   == IF mp < 10 THEN mp + 3 ELSE mp - 9
    IN  [y |-> yoe + era * 400 + (IF m <= 2 THEN 1 ELSE 0), m |-> m, d |-> d]

\* localtime_r(&t, tm) in a zone that is zone seconds east of UTC
localtime_r(t, zone) ==
    LET lt   == t + zone
        days == lt \div 86400
        rem  == lt % 86400
        c    == CivilFromDays(days)
    IN  [tm_sec |-> rem % 60, tm_min |-> (rem \div 60) % 60,
         tm_hour |-> rem \div 3600, tm_mday |-> c.d, tm_mon |-> c.m - 1,
         tm_year |-> c.y - 1900, tm_wday |-> (days + 4) % 7]

-----------------------------------------------------------------------------
(* The two protocol parsers *)

TpParseOutput(output, timePtr) ==
    LET r == strptime(output, timePtr)
    IN  IF ~r.ok THEN [result |-> LE_FAULT, tm |-> r.tm]
        ELSE [result |-> LE_OK, tm |-> r.tm]

NtpdateMarker ==
    <<"n","t","p","d","a","t","e">>

OffSetString ==
    <<"o","f","f","s","e","t"," ">>

OffSetUnitString ==
    <<" ","s","e","c">>

\* lines 183-203 on the text output: where the three markers stand (0: not
\* found) and the value strtol reads between "offset " and " sec"
NtpScan(output) ==
    LET offsetAt  == StrStr(output, OffSetString, 1)
        searchPtr == offsetAt + Len(OffSetString)
        stringEnd == IF offsetAt = 0 THEN 0
                     ELSE StrStr(output, OffSetUnitString, searchPtr)
    IN  [marker |-> StrStr(output, NtpdateMarker, 1),
         offsetAt |-> offsetAt,
         stringEnd |-> stringEnd,
         offSetSecs |-> IF stringEnd = 0 THEN 0
                        ELSE strtol(SubSeq(output, searchPtr, stringEnd - 1))]

\* NtpScan on the lines of the model, computed once
NtpScanOfLine ==
    [l \in Lines |-> NtpScan(l)]

\* a variant that rounds the offset to the nearest second
NtpParseOutput_Rounded(output, currentTimePtr, absSec, zone) ==
    LET scan  == NtpScan(output)
        field == SubSeq(output, scan.offsetAt + Len(OffSetString), scan.stringEnd - 1)
        dot   == StrStr(field, <<".">>, 1)
        up    == /\ dot > 0
                 /\ dot < Len(field)
                 /\ IsDigit(field[dot + 1])
                 /\ DigitVal(field[dot + 1]) >= 5
        away  == IF ~up THEN 0 ELSE IF field[1] = "-" THEN 0 - 1 ELSE 1
    IN  IF scan.marker = 0 \/ scan.offsetAt = 0 \/ scan.stringEnd = 0
        THEN [result |-> LE_NOT_FOUND, tm |-> currentTimePtr]
        ELSE [result |-> LE_OK,
              tm |-> localtime_r(scan.offSetSecs + away + absSec, zone)]

\* absSec is le_clk_GetAbsoluteTime().sec, read when the line is parsed
NtpParseOutput(output, currentTimePtr, absSec, zone) ==
    LET scan == IF output \in Lines THEN NtpScanOfLine[output] ELSE NtpScan(output)
    IN  IF scan.marker = 0 THEN [result |-> LE_NOT_FOUND, tm |-> currentTimePtr]
        ELSE IF scan.offsetAt = 0 THEN [result |-> LE_NOT_FOUND, tm |-> currentTimePtr]
        ELSE IF scan.stringEnd = 0 THEN [result |-> LE_NOT_FOUND, tm |-> currentTimePtr]
        ELSE [result |-> LE_OK,
              tm |-> localtime_r(scan.offSetSecs + absSec, zone)]

\* lines 321-326 on a line of output: whether it is taken as the status line,
\* and the result code read from it
StatusScan(output) ==
    [taken |-> Len(output) > 1, resultCode |-> ToInt16(strtol(output))]

\* StatusScan on the lines of the model, computed once
StatusOfLine ==
    [l \in Lines |-> StatusScan(l)]

\* the outcomes of getaddrinfo: a failure code, or 0 with a list of addresses
GetaddrinfoOutcomes ==
    {[rc |-> 0 - 2, list |-> <<>>], [rc |-> 0, list |-> <<"addr">>]}

\* the system clock at the start (1 Jan 07:33:20 1971, the example of the
\* source) and the time a server may set it to
BootTimes ==
    {31563200}

ServerTimes ==
    {400000000}

\* local time zones, in seconds east of UTC
GmtOffsets ==
    {19800, 0 - 18000}

\* lines one call reads at most, and seconds that pass while calls wait
MaxLines ==
    2

MaxElapsed ==
    1

-----------------------------------------------------------------------------
(* le_clkSync_ClockTime_t *)

ZeroTime ==
    [msec |-> 0, sec |-> 0, min |-> 0, hour |-> 0, day |-> 0, mon |-> 0, year |-> 0]

\* what a caller's structure may hold before the call
CallerTimes ==
    {[msec |-> 999, sec |-> 59, min |-> 59, hour |-> 23, day |-> 31, mon |-> 12,
      year |-> 2018]}

\* lines 293-299: the conversion of a parsed struct tm
Normalise(t) ==
    [msec |-> 0, sec |-> t.tm_sec, min |-> t.tm_min, hour |-> t.tm_hour,
     day |-> t.tm_mday, mon |-> 1 + t.tm_mon, year |-> 1900 + t.tm_year]

-----------------------------------------------------------------------------
(* Command construction *)

\* what snprintf keeps of a text for a buffer of size bytes
Truncate(text, size) ==
    SubSeq(text, 1, Min({Len(text), size - 1}))

\* what "%s" prints for the server argument (glibc prints "(null)" for NULL)
StrArg(p) ==
    IF p.null THEN NullText ELSE p.chars

\* variants of the wrappers that build the set command in both modes
TpCommand_AlwaysSet(getOnlyArg, server) ==
    Truncate(RdateSetFmt \o StrArg(server) \o SetTail, MAX_SYSTEM_CMD_LENGTH)

NtpCommand_AlwaysSet(getOnlyArg, server) ==
    Truncate(NtpdateSetFmt \o StrArg(server) \o SetTail, MAX_SYSTEM_CMD_LENGTH)

TpCommand(getOnlyArg, server) ==
    IF getOnlyArg
    THEN Truncate(RdateGetFmt \o StrArg(server), MAX_SYSTEM_CMD_LENGTH)
    ELSE Truncate(RdateSetFmt \o StrArg(server) \o SetTail, MAX_SYSTEM_CMD_LENGTH)

NtpCommand(getOnlyArg, server) ==
    IF getOnlyArg
    THEN Truncate(NtpdateGetFmt \o StrArg(server) \o GetTail, MAX_SYSTEM_CMD_LENGTH)
    ELSE Truncate(NtpdateSetFmt \o StrArg(server) \o SetTail, MAX_SYSTEM_CMD_LENGTH)

\* The launched tools: rdate sets the system clock unless run with -p (print
\* only), ntpdate unless run with -q (query only).
HasOption(cmd, opt) ==
    StrStr(cmd, <<" ", "-", opt, " ">>, 1) # 0

SetsClock(cmd) ==
    \/ MatchAt(cmd, RdateSetFmt, 1) /\ ~HasOption(cmd, "p")
    \/ MatchAt(cmd, SubSeq(NtpdateSetFmt, 1, 17), 1) /\ ~HasOption(cmd, "q")

\* the commands the two wrappers can build, and those among them that set the clock
Commands ==
    {TpCommand(g, s) : g \in BOOLEAN, s \in Servers}
        \cup {NtpCommand(g, s) : g \in BOOLEAN, s \in Servers}

ClockSetters ==
    {c \in Commands : SetsClock(c)}

-----------------------------------------------------------------------------
(* State *)

VARIABLES
    pc,               \* where the call stands
    protocol,         \* "TP" or "NTP": the wrapper called, hence parseFunc
    serverStrPtr, getOnly, timePtrNull,   \* the arguments
    protocolCommand,  \* the wrapper's command buffer
    clockTime,        \* the structure timePtr points to
    tm, result,       \* locals of pa_clkSync_GetTimeFromServer
    fp,               \* "none", "open" or "closed"
    retval,           \* the value returned
    nameLookup,       \* "none", or how getaddrinfo ended: "ok", "failed"
    nResolve, nPopen, nPclose,   \* calls of getaddrinfo, popen, pclose
    readLines,        \* the lines fgets has returned, in order
    lastParse,        \* what parseFunc returned for the last of them
    toolSet,          \* the launched process has set the system clock
    epoch, elapsed,   \* the system clock reads epoch + elapsed
    gmtoff            \* the local time zone

vars ==
    <<pc, protocol, serverStrPtr, getOnly, timePtrNull, protocolCommand,
      clockTime, tm, result, fp, retval, nameLookup, nResolve, nPopen, nPclose,
      readLines, lastParse, toolSet, epoch, elapsed, gmtoff>>

callVars ==
    <<protocol, serverStrPtr, getOnly, timePtrNull, protocolCommand>>

clockVars ==
    <<epoch, elapsed, gmtoff>>

\* le_clk_GetAbsoluteTime().sec
Now ==
    epoch + elapsed

Idle ==
    /\ pc = "idle"
    /\ protocol = "none"
    /\ serverStrPtr = NULL
    /\ getOnly = FALSE
    /\ timePtrNull = FALSE
    /\ protocolCommand = <<>>
    /\ clockTime = ZeroTime
    /\ tm = ZeroTm
    /\ result = "unset"
    /\ fp = "none"
    /\ retval = "none"
    /\ nameLookup = "none"
    /\ nResolve = 0
    /\ nPopen = 0
    /\ nPclose = 0
    /\ readLines = <<>>
    /\ lastParse = "none"
    /\ toolSet = FALSE

Init ==
    /\ Idle
    /\ epoch \in BootTimes
    /\ elapsed = 0
    /\ gmtoff \in GmtOffsets

-----------------------------------------------------------------------------
(* pa_clkSync_GetTimeFromServer, from its entry to the first blocking call *)

\* a variant without the memset of line 258
MemsetTime_Skipped(nullTime, buffer) ==
    buffer

\* line 258: memset(timePtr, 0, ...), reached when timePtr is not null
MemsetTime(nullTime, buffer) ==
    IF nullTime THEN buffer ELSE ZeroTime

\* a variant of line 259 that forgets the test for the empty string
ServerInvalid_NullOnly(server) ==
    server.null

\* line 259
ServerInvalid(server) ==
    server.null \/ server.chars = <<>>

\* lines 251-275 up to the call of getaddrinfo or popen
GetTimeFromServerEntry(server, getOnlyArg, command, parser, nullTime, buffer) ==
    /\ pc = "idle"
    /\ protocol' = parser
    /\ serverStrPtr' = server
    /\ getOnly' = getOnlyArg
    /\ timePtrNull' = nullTime
    /\ protocolCommand' = command
    /\ clockTime' = MemsetTime(nullTime, buffer)
    /\ IF nullTime \/ ServerInvalid(server)
       THEN pc' = "returned" /\ retval' = LE_BAD_PARAMETER
       ELSE /\ pc' = IF IsIpAddress(server.chars) THEN "popen" ELSE "resolve"
            /\ retval' = retval
    /\ UNCHANGED <<tm, result, fp, nameLookup, nResolve, nPopen, nPclose,
                   readLines, lastParse, toolSet>>
    /\ UNCHANGED clockVars

pa_clkSync_GetTimeWithTimeProtocol(server, getOnlyArg, nullTime, buffer) ==
    GetTimeFromServerEntry(server, getOnlyArg, TpCommand(getOnlyArg, server),
                           "TP", nullTime, buffer)

pa_clkSync_GetTimeWithNetworkTimeProtocol(server, getOnlyArg, nullTime, buffer) ==
    GetTimeFromServerEntry(server, getOnlyArg, NtpCommand(getOnlyArg, server),
                           "NTP", nullTime, buffer)

\* lines 266-275: the name is looked up, once
Resolve ==
    /\ pc = "resolve"
    /\ \E ai \in GetaddrinfoOutcomes :
          /\ nResolve' = nResolve + 1
          /\ nameLookup' = IF ai.rc # 0 THEN "failed" ELSE "ok"
          /\ IF ResolveIpAddress(ai) # LE_OK
             THEN /\ pc' = "returned"
                  /\ retval' = LE_NOT_FOUND
             ELSE /\ pc' = "popen"
                  /\ retval' = retval
    /\ UNCHANGED <<clockTime, tm, result, fp, nPopen, nPclose, readLines,
                   lastParse, toolSet>>
    /\ UNCHANGED callVars
    /\ UNCHANGED clockVars

\* lines 279-288 and 311-318: popen and the initial result of the branch
Popen ==
    /\ pc = "popen"
    /\ nPopen' = nPopen + 1
    /\ \E launched \in BOOLEAN :
          IF ~launched
          THEN /\ pc' = "returned"
               /\ retval' = LE_FAULT
               /\ UNCHANGED <<fp, result>>
          ELSE /\ pc' = "fgets"
               /\ fp' = "open"
               /\ result' = IF getOnly THEN LE_FAULT ELSE LE_UNAVAILABLE
               /\ retval' = retval
    /\ UNCHANGED <<clockTime, tm, nameLookup, nResolve, nPclose, readLines,
                   lastParse, toolSet>>
    /\ UNCHANGED callVars
    /\ UNCHANGED clockVars

\* fgets(output, sizeof(output)-1, fp) keeps at most sizeof(output)-2
\* characters of a line (the lines of this model are shorter)
FgetsChunk(line) ==
    SubSeq(line, 1, Min({Len(line), MAX_SYSTEM_CMD_OUTPUT_LENGTH - 2}))

\* parseFunc(output, &tm)
ParseFunc(parser, output, timePtr, absSec, zone) ==
    IF parser = "TP" THEN TpParseOutput(output, timePtr)
    ELSE NtpParseOutput(output, timePtr, absSec, zone)

\* a variant of the get-only loop that gives up at the first line the parser
\* rejects
GetOnlyLine_BreakOnReject ==
    /\ pc = "fgets"
    /\ getOnly
    /\ Len(readLines) < MaxLines
    /\ \E line \in Lines, dt \in 0..(MaxElapsed - elapsed) :
          LET output == FgetsChunk(line)
              r == ParseFunc(protocol, output, tm, epoch + elapsed + dt, gmtoff)
          IN  /\ elapsed' = elapsed + dt
              /\ readLines' = Append(readLines, output)
              /\ lastParse' = r.result
              /\ tm' = r.tm
              /\ pc' = "pclose"
              /\ IF r.result = LE_OK
                 THEN /\ clockTime' = Normalise(r.tm)
                      /\ result' = LE_OK
                 ELSE UNCHANGED <<clockTime, result>>
    /\ UNCHANGED <<fp, retval, nameLookup, nResolve, nPopen, nPclose, toolSet,
                   epoch, gmtoff>>
    /\ UNCHANGED callVars

\* lines 289-303: one turn of the get-only loop, on a line that took dt
\* seconds to arrive
GetOnlyLine ==
    /\ pc = "fgets"
    /\ getOnly
    /\ Len(readLines) < MaxLines
    /\ \E line \in Lines, dt \in 0..(MaxElapsed - elapsed) :
          LET output == FgetsChunk(line)
              r == ParseFunc(protocol, output, tm, epoch + elapsed + dt, gmtoff)
          IN  /\ elapsed' = elapsed + dt
              /\ readLines' = Append(readLines, output)
              /\ lastParse' = r.result
              /\ tm' = r.tm
              /\ IF r.result = LE_OK
                 THEN /\ clockTime' = Normalise(r.tm)
                      /\ result' = LE_OK
                      /\ pc' = "pclose"
                 ELSE UNCHANGED <<clockTime, result, pc>>
    /\ UNCHANGED <<fp, retval, nameLookup, nResolve, nPopen, nPclose, toolSet,
                   epoch, gmtoff>>
    /\ UNCHANGED callVars

\* lines 319-329: one turn of the loop that looks for the status line
SyncLine ==
    /\ pc = "fgets"
    /\ ~getOnly
    /\ Len(readLines) < MaxLines
    /\ \E line \in Lines, dt \in 0..(MaxElapsed - elapsed) :
          LET output == FgetsChunk(line)
              status == IF output \in Lines THEN StatusOfLine[output]
                        ELSE StatusScan(output)
          IN  /\ elapsed' = elapsed + dt
              /\ readLines' = Append(readLines, output)
              /\ IF status.taken
                 THEN /\ result' = IF status.resultCode = 0 THEN LE_OK ELSE LE_FAULT
                      /\ pc' = "pclose"
                 ELSE UNCHANGED <<result, pc>>
    /\ UNCHANGED <<clockTime, tm, fp, retval, nameLookup, nResolve, nPopen,
                   nPclose, lastParse, toolSet, epoch, gmtoff>>
    /\ UNCHANGED callVars

\* fgets returns NULL: the output is exhausted and the loop ends
FgetsEof ==
    /\ pc = "fgets"
    /\ pc' = "pclose"
    /\ UNCHANGED <<clockTime, tm, result, fp, retval, nameLookup, nResolve,
                   nPopen, nPclose, readLines, lastParse, toolSet>>
    /\ UNCHANGED callVars
    /\ UNCHANGED clockVars

\* the launched command, when it is one that sets the clock, steps the system
\* clock to the server's time while the call waits for its output
ToolSetsClock ==
    /\ pc = "fgets"
    /\ fp = "open"
    /\ ~toolSet
    /\ protocolCommand \in ClockSetters
    /\ toolSet' = TRUE
    /\ epoch' \in ServerTimes
    /\ UNCHANGED <<pc, clockTime, tm, result, fp, retval, nameLookup, nResolve,
                   nPopen, nPclose, readLines, lastParse, elapsed, gmtoff>>
    /\ UNCHANGED callVars

\* a variant that returns from inside the loop on success, leaving the stream open
Pclose_LeakOnSuccess ==
    /\ pc = "pclose"
    /\ IF result = LE_OK
       THEN UNCHANGED <<fp, nPclose>>
       ELSE fp' = "closed" /\ nPclose' = nPclose + 1
    /\ retval' = result
    /\ pc' = "returned"
    /\ UNCHANGED <<clockTime, tm, result, nameLookup, nResolve, nPopen,
                   readLines, lastParse, toolSet>>
    /\ UNCHANGED callVars
    /\ UNCHANGED clockVars

\* lines 331-332
Pclose ==
    /\ pc = "pclose"
    /\ fp' = "closed"
    /\ nPclose' = nPclose + 1
    /\ retval' = result
    /\ pc' = "returned"
    /\ UNCHANGED <<clockTime, tm, result, nameLookup, nResolve, nPopen,
                   readLines, lastParse, toolSet>>
    /\ UNCHANGED callVars
    /\ UNCHANGED clockVars

\* the caller has the result; nothing of the call is kept for the next one
Return ==
    /\ pc = "returned"
    /\ pc' = "idle"
    /\ protocol' = "none"
    /\ serverStrPtr' = NULL
    /\ getOnly' = FALSE
    /\ timePtrNull' = FALSE
    /\ protocolCommand' = <<>>
    /\ clockTime' = ZeroTime
    /\ tm' = ZeroTm
    /\ result' = "unset"
    /\ fp' = "none"
    /\ retval' = "none"
    /\ nameLookup' = "none"
    /\ nResolve' = 0
    /\ nPopen' = 0
    /\ nPclose' = 0
    /\ readLines' = <<>>
    /\ lastParse' = "none"
    /\ toolSet' = FALSE
    /\ UNCHANGED clockVars

Next ==
    \/ \E server \in Servers, getOnlyArg \in BOOLEAN, nullTime \in BOOLEAN,
          buffer \in CallerTimes :
          pa_clkSync_GetTimeWithTimeProtocol(server, getOnlyArg, nullTime, buffer)
    \/ \E server \in Servers, getOnlyArg \in BOOLEAN, nullTime \in BOOLEAN,
          buffer \in CallerTimes :
          pa_clkSync_GetTimeWithNetworkTimeProtocol(server, getOnlyArg, nullTime,
                                                    buffer)
    \/ Resolve
    \/ Popen
    \/ GetOnlyLine
    \/ SyncLine
    \/ FgetsEof
    \/ ToolSetsClock
    \/ Pclose
    \/ Return

Spec ==
    Init /\ [][Next]_vars

-----------------------------------------------------------------------------
(* Properties *)

\* what the properties expect of the servers of the model
LiteralServers ==
    {SrvV4, SrvV6, SrvV6Mapped}

EmptyServer ==
    serverStrPtr.null \/ Len(serverStrPtr.chars) = 0

\* the call is past its argument checks with a server that needs no lookup or
\* whose lookup succeeded
ResolutionPassed ==
    /\ ~timePtrNull
    /\ ~EmptyServer
    /\ serverStrPtr.chars \in LiteralServers \/ nameLookup = "ok"

\* C1: a call with a null or empty server string and a non-null output buffer
\* returns LE_BAD_PARAMETER, for either protocol and either mode, and on that
\* path no name is looked up and no process is launched.
C1_EmptyServerIsBadParameter ==
    (pc # "idle" /\ ~timePtrNull /\ EmptyServer) =>
        /\ pc = "returned"
        /\ retval = LE_BAD_PARAMETER
        /\ nResolve = 0
        /\ nameLookup = "none"
        /\ nPopen = 0
        /\ fp = "none"

C1_Witness ==
    /\ pc = "returned"
    /\ ~timePtrNull
    /\ serverStrPtr = Str(<<>>)
    /\ protocol = "NTP"
    /\ ~getOnly
    /\ retval = LE_BAD_PARAMETER

\* the lines the status loop does not skip
NonBlankLines ==
    {i \in 1..Len(readLines) : \E k \in 1..Len(readLines[i]) : ~IsSpace(readLines[i][k])}

\* C3: in SyncAndSet mode the first non-blank line of the output decides the
\* result: success when its integer value is 0, Fault when it is any other
\* integer, Unavailable when the output holds no non-blank line.
C3_StatusLineDecides ==
    (pc = "returned" /\ ~getOnly /\ fp = "closed") =>
        IF NonBlankLines = {} THEN retval = LE_UNAVAILABLE
        ELSE IF strtol(readLines[Min(NonBlankLines)]) = 0 THEN retval = LE_OK
        ELSE retval = LE_FAULT

\* C4: a GetOnly call whose process was launched and whose output is consumed
\* without a line the parser accepts returns Unavailable.
C4_ExhaustedIsUnavailable ==
    (pc = "returned" /\ getOnly /\ fp = "closed" /\ lastParse # LE_OK) =>
        retval = LE_UNAVAILABLE

\* C5 as stated: when the lookup of a non-literal server fails the call returns
\* NotFound, and no command has been built and no process launched by then.
C5_NotFoundBeforeCommandBuilt ==
    (pc = "returned" /\ nameLookup = "failed") =>
        /\ retval = LE_NOT_FOUND
        /\ protocolCommand = <<>>
        /\ nPopen = 0

\* C5 as amended: when the lookup of a non-empty, non-literal server fails the
\* call returns NotFound, for either protocol and either mode, and no process
\* has been launched; the command was built by the wrapper before the lookup
\* and is never executed.  A non-literal server is always looked up before
\* anything is launched.
C5_NotFoundBeforeLaunch ==
    /\ nameLookup = "failed" =>
          /\ pc = "returned"
          /\ retval = LE_NOT_FOUND
          /\ ~EmptyServer
          /\ serverStrPtr.chars \notin LiteralServers
          /\ Len(protocolCommand) > 0
          /\ nPopen = 0
          /\ fp = "none"
    /\ (nPopen > 0 /\ serverStrPtr.chars \notin LiteralServers) => nameLookup = "ok"
    /\ (pc = "returned" /\ ~timePtrNull /\ ~EmptyServer
          /\ serverStrPtr.chars \notin LiteralServers) => nResolve = 1

C5_Witness ==
    /\ pc = "returned"
    /\ nameLookup = "failed"
    /\ retval = LE_NOT_FOUND
    /\ serverStrPtr = Str(SrvBadQuad)
    /\ Len(protocolCommand) > 0

\* C8: a call launches at most one process, exactly one when the argument
\* checks and the lookup pass; a stream that was opened is closed exactly once
\* before the call returns, whatever ended the loop; a failed launch returns
\* Fault and closes nothing.
C8_OneLaunchOneClose ==
    /\ nPopen <= 1
    /\ nPclose <= 1
    /\ fp = "open" => (nPopen = 1 /\ nPclose = 0 /\ pc \in {"fgets", "pclose"})
    /\ fp = "closed" => (nPopen = 1 /\ nPclose = 1 /\ pc = "returned")
    /\ pc = "returned" =>
          /\ fp # "open"
          /\ ResolutionPassed => nPopen = 1
          /\ ~ResolutionPassed => nPopen = 0
          /\ (nPopen = 1 /\ fp = "none") => (retval = LE_FAULT /\ nPclose = 0)
          /\ fp = "closed" => retval = result

C8_Witness ==
    /\ pc = "returned"
    /\ fp = "closed"
    /\ nPopen = 1
    /\ nPclose = 1
    /\ retval = LE_UNAVAILABLE
    /\ Len(readLines) = MaxLines

-----------------------------------------------------------------------------
(* What the properties expect of the lines of the model, stated apart from the
   parsers *)

\* the lines in the format of rdate -p, and the calendar fields each states
TpAccepts ==
    {LnTpDate, LnTpLater}

ExpectedTpTime(l) ==
    CASE l = LnTpDate ->
           [msec |-> 0, sec |-> 5, min |-> 4, hour |-> 15, day |-> 2, mon |-> 1,
            year |-> 2024]
      [] l = LnTpLater ->
           [msec |-> 0, sec |-> 60, min |-> 59, hour |-> 23, day |-> 31, mon |-> 2,
            year |-> 1999]
      [] OTHER -> ZeroTime

Contains(l, p) ==
    \E i \in 1..Len(l) : MatchAt(l, p, i)

\* the lines that name ntpdate and hold "offset " with " sec" somewhere after it
LinesWithMarkers ==
    {l \in Lines :
        /\ Contains(l, NtpdateMarker)
        /\ \E i \in 1..Len(l), j \in 1..Len(l) :
              /\ MatchAt(l, OffSetString, i)
              /\ j >= i + Len(OffSetString)
              /\ MatchAt(l, OffSetUnitString, j)}

LinesWithoutMarkers ==
    Lines \ LinesWithMarkers

\* the offset each of them states, cut to whole seconds toward zero
TruncatedOffset(l) ==
    CASE l = LnNtpStep -> 1558374338
      [] l = LnNtpNeg -> 0 - 1
      [] l = LnNtpFrac -> 0
      [] OTHER -> 0

IsLeap(y) ==
    (y % 4 = 0 /\ y % 100 # 0) \/ y % 400 = 0

LeapsBefore(y) ==
    (y - 1) \div 4 - (y - 1) \div 100 + (y - 1) \div 400

DaysInMonth(y, m) ==
    IF m = 2 THEN (IF IsLeap(y) THEN 29 ELSE 28)
    ELSE IF m \in {4, 6, 9, 11} THEN 30 ELSE 31

DaysBeforeMonth(y, m) ==
    <<0, 31, 59, 90, 120, 151, 181, 212, 243, 273, 304, 334>>[m]
        + (IF m > 2 /\ IsLeap(y) THEN 1 ELSE 0)

\* a date of the calendar with a time of day
ValidCivil(y, m, d, hh, mm, ss) ==
    /\ m \in 1..12
    /\ d \in 1..DaysInMonth(y, m)
    /\ hh \in 0..23
    /\ mm \in 0..59
    /\ ss \in 0..59

\* the seconds from 1970-01-01 00:00:00 to that date and time
SecondsOfCivil(y, m, d, hh, mm, ss) ==
    (365 * (y - 1970) + LeapsBefore(y) - LeapsBefore(1970)
        + DaysBeforeMonth(y, m) + d - 1) * 86400 + hh * 3600 + mm * 60 + ss

\* ct is the local calendar time of the instant t in the zone
IsLocalTimeOf(ct, t, zone) ==
    /\ ct.msec = 0
    /\ ValidCivil(ct.year, ct.mon, ct.day, ct.hour, ct.min, ct.sec)
    /\ SecondsOfCivil(ct.year, ct.mon, ct.day, ct.hour, ct.min, ct.sec) = t + zone

Accepts(parser, l) ==
    IF parser = "TP" THEN l \in TpAccepts ELSE l \in LinesWithMarkers

\* ct is the time the accepted line l stands for, read at the instant now
IsTimeOfLine(ct, parser, l, now, zone) ==
    IF parser = "TP" THEN ct = ExpectedTpTime(l)
    ELSE IsLocalTimeOf(ct, now + TruncatedOffset(l), zone)

TmAsTime(t) ==
    [msec |-> 0, sec |-> t.tm_sec, min |-> t.tm_min, hour |-> t.tm_hour,
     day |-> t.tm_mday, mon |-> t.tm_mon + 1, year |-> t.tm_year + 1900]

NonEmptyValidCall ==
    pc = "returned" /\ ~timePtrNull /\ ~EmptyServer

C6_SuccessIsPopulated ==
    (pc = "returned" /\ retval = LE_OK) =>
        /\ clockTime # ZeroTime
        /\ clockTime.mon \in 1..12
        /\ clockTime.day \in 1..31

\* C6 as amended: after a call with a non-null output buffer, a GetOnly call
\* that returns success returns a ClockTime whose year, month (1-12), day
\* (1-31), hour, minute and second are those of one parsed line and whose
\* millisecond is 0 (the day is not checked against the month); a SyncAndSet
\* call that returns success returns it all zero; a call that reports an error
\* returns it all zero.
C6_SuccessPopulatedInGetOnly ==
    (pc = "returned" /\ ~timePtrNull) =>
        IF retval = LE_OK /\ getOnly
        THEN /\ clockTime.msec = 0
             /\ clockTime.mon \in 1..12
             /\ clockTime.day \in 1..31
             /\ \E i \in 1..Len(readLines) :
                   /\ Accepts(protocol, readLines[i])
                   /\ IsTimeOfLine(clockTime, protocol, readLines[i], Now, gmtoff)
        ELSE clockTime = ZeroTime

C6_Witness ==
    /\ pc = "returned"
    /\ ~timePtrNull
    /\ retval = LE_OK
    /\ ~getOnly
    /\ clockTime = ZeroTime
    /\ toolSet

\* C7: a GetOnly call never changes the system clock: the command it launches
\* is the print-only form of rdate or the query form of ntpdate, and over any
\* sequence of calls the clock is set only while a SyncAndSet call waits for
\* its process.
C7_GetOnlyNeverSetsClock ==
    [][/\ epoch' # epoch => (~getOnly /\ pc = "fgets" /\ fp = "open")
       /\ toolSet' => ~getOnly'
       /\ (getOnly' /\ nPopen' = 1) =>
             /\ ~SetsClock(protocolCommand')
             /\ protocolCommand' \in
                   {RdateGetFmt \o serverStrPtr'.chars,
                    NtpdateGetFmt \o serverStrPtr'.chars \o GetTail}]_vars

C7_Witness ==
    /\ getOnly
    /\ pc = "returned"
    /\ fp = "closed"
    /\ epoch \in ServerTimes
    /\ Len(readLines) > 0

\* C9: in GetOnly mode the lines go to the parser in order; a line it rejects
\* does not end the scan, the first line it accepts does, the ClockTime
\* returned is the normalisation of that line, and nothing read or done later
\* changes it.
C9_StateAfterLines ==
    (getOnly /\ fp # "none") =>
        LET n == Len(readLines)
        IN  /\ \A i \in 1..(n - 1) : ~Accepts(protocol, readLines[i])
            /\ IF n > 0 /\ Accepts(protocol, readLines[n])
               THEN /\ pc # "fgets"
                    /\ result = LE_OK
                    /\ IsTimeOfLine(clockTime, protocol, readLines[n], Now, gmtoff)
               ELSE /\ result = LE_FAULT
                    /\ clockTime = ZeroTime

C9_Step ==
    /\ (getOnly /\ pc = "fgets" /\ readLines' # readLines) =>
          /\ Len(readLines') = Len(readLines) + 1
          /\ SubSeq(readLines', 1, Len(readLines)) = readLines
          /\ pc' = IF Accepts(protocol, readLines'[Len(readLines')])
                   THEN "pclose" ELSE "fgets"
    /\ (getOnly /\ pc = "pclose") =>
          /\ pc' = "returned"
          /\ retval' = result
          /\ clockTime' = clockTime
          /\ readLines' = readLines

C9_FirstAcceptedLineWins ==
    []C9_StateAfterLines /\ [][C9_Step]_vars

C9_Witness ==
    /\ pc = "returned"
    /\ getOnly
    /\ protocol = "TP"
    /\ retval = LE_OK
    /\ readLines = <<LnTpBadHour, LnTpLater>>
    /\ clockTime = ExpectedTpTime(LnTpLater)

====
